---- MODULE Spec2Model ----
(***************************************************************************)
(* Model of the macro scraping engine (src/scraper_engine.py): the macro   *)
(* parser, the command dispatcher with its five handlers, and the          *)
(* run_scraping_job state machine driving one browser session.             *)
(*                                                                         *)
(* Text is modelled as sequences of one-character strings so that strip,   *)
(* split, upper-casing and the two regular expressions are computed the    *)
(* way the code computes them.                                             *)
(***************************************************************************)
EXTENDS Integers, Sequences, FiniteSets, TLC

\* ------------------------------------------------------------------------
\* Bounds of the model
\* ------------------------------------------------------------------------

\* largest number of lines of an instruction text
MaxLines == 3

\* ------------------------------------------------------------------------
\* Characters and str methods
\* ------------------------------------------------------------------------

None == "None"

LowerCase ==
  <<"a", "b", "c", "d", "e", "f", "g", "h", "i", "j", "k", "l", "m",
    "n", "o", "p", "q", "r", "s", "t", "u", "v", "w", "x", "y", "z">>

UpperCase ==
  <<"A", "B", "C", "D", "E", "F", "G", "H", "I", "J", "K", "L", "M",
    "N", "O", "P", "Q", "R", "S", "T", "U", "V", "W", "X", "Y", "Z">>

Digits == {"0", "1", "2", "3", "4", "5", "6", "7", "8", "9"}

\* characters str.strip() removes
Whitespace == {" ", "\t", "\r", "\n"}

\* the regular expression class \w
IsWordChar(c) ==
  \/ \E k \in 1..26 : c = LowerCase[k] \/ c = UpperCase[k]
  \/ c \in Digits
  \/ c = "_"

\* str.upper() on one character
UpperChar(c) ==
  IF \E k \in 1..26 : c = LowerCase[k]
  THEN UpperCase[CHOOSE k \in 1..26 : c = LowerCase[k]]
  ELSE c

\* str.lower() on one character
LowerChar(c) ==
  IF \E k \in 1..26 : c = UpperCase[k]
  THEN LowerCase[CHOOSE k \in 1..26 : c = UpperCase[k]]
  ELSE c

Upper(s) == [k \in 1..Len(s) |-> UpperChar(s[k])]

Lower(s) == [k \in 1..Len(s) |-> LowerChar(s[k])]

\* s[a..b] (1-based, inclusive), the empty text when a > b
Slice(s, a, b) == [k \in 1..(b - a + 1) |-> s[a + k - 1]]

\* str.strip(): drop leading and trailing whitespace
Strip(s) ==
  LET keep == {k \in 1..Len(s) : s[k] \notin Whitespace}
  IN  IF keep = {} THEN <<>>
      ELSE LET first == CHOOSE k \in keep : \A j \in keep : k <= j
               last  == CHOOSE k \in keep : \A j \in keep : j <= k
           IN  Slice(s, first, last)

\* str.startswith(prefix)
StartsWith(s, prefix) ==
  /\ Len(s) >= Len(prefix)
  /\ Slice(s, 1, Len(prefix)) = prefix

\* str.split('\n'): the pieces between newlines, empty pieces included
RECURSIVE SplitLines(_)
SplitLines(s) ==
  LET nl == {k \in 1..Len(s) : s[k] = "\n"}
  IN  IF nl = {} THEN <<s>>
      ELSE LET first == CHOOSE k \in nl : \A j \in nl : k <= j
           IN  <<Slice(s, 1, first - 1)>> \o SplitLines(Slice(s, first + 1, Len(s)))

\* '\n'.join(ls)
RECURSIVE JoinLines(_)
JoinLines(ls) ==
  IF Len(ls) = 0 THEN <<>>
  ELSE IF Len(ls) = 1 THEN ls[1]
  ELSE ls[1] \o <<"\n">> \o JoinLines(Tail(ls))

\* smallest member of a non-empty set of positions
Least(S) == CHOOSE k \in S : \A j \in S : k <= j

\* ------------------------------------------------------------------------
\* ScrapingEngine.parse_macro
\* ------------------------------------------------------------------------

\* first position at or after p that is not a word character (Len(s)+1 if none)
WordRunEnd(s, p) ==
  Least({k \in p..(Len(s) + 1) : k = Len(s) + 1 \/ ~IsWordChar(s[k])})

NoMatch == [matched |-> FALSE]

\* the null that parse_macro returns for a line that is no macro
Null == [null |-> TRUE]

\* re.match(r"(\w+)\((.*?)\)", s): anchored at the start only; the lazy
\* group ends at the first closing parenthesis
MatchMacro(s) ==
  LET e == WordRunEnd(s, 1)
  IN  IF e = 1 \/ e > Len(s) \/ s[e] # "(" THEN NoMatch
      ELSE LET close == {k \in (e + 1)..Len(s) : s[k] = ")"}
           IN  IF close = {} THEN NoMatch
               ELSE [matched |-> TRUE,
                     group1  |-> Slice(s, 1, e - 1),
                     group2  |-> Slice(s, e + 1, Least(close) - 1)]

\* one match of r"(\w+)=(['\"]?)(.*?)\2(?:,|$)" starting exactly at p
MatchParamAt(s, p) ==
  LET n == Len(s)
      e == WordRunEnd(s, p)
  IN  IF e = p \/ e > n \/ s[e] # "=" THEN NoMatch
      ELSE
        LET v0     == e + 1
            quoted == v0 <= n /\ s[v0] \in {"'", "\""}
            \* closing quote followed by a comma or the end of the text
            closeq == IF quoted
                      THEN {j \in (v0 + 1)..n :
                              s[j] = s[v0] /\ (j = n \/ s[j + 1] = ",")}
                      ELSE {}
            \* unquoted: the value runs to the next comma or the end
            stops  == {j \in v0..(n + 1) : j = n + 1 \/ s[j] = ","}
        IN  IF closeq # {}
            THEN LET j == Least(closeq)
                 IN  [matched |-> TRUE,
                      key     |-> Slice(s, p, e - 1),
                      value   |-> Slice(s, v0 + 1, j - 1),
                      next    |-> IF j < n THEN j + 2 ELSE j + 1]
            ELSE LET j == Least(stops)
                 IN  [matched |-> TRUE,
                      key     |-> Slice(s, p, e - 1),
                      value   |-> Slice(s, v0, j - 1),
                      next    |-> IF j <= n THEN j + 1 ELSE j]

\* a map that keeps the value a key got first
DictPut_keepFirst(d, key, value) ==
  [k \in DOMAIN d \cup {key} |-> IF k \in DOMAIN d THEN d[k] ELSE value]

\* params[key] = value
DictPut(d, key, value) ==
  [k \in DOMAIN d \cup {key} |-> IF k = key THEN value ELSE d[k]]

\* dict.get(key, default)
DictGet(d, key, default) == IF key \in DOMAIN d THEN d[key] ELSE default

EmptyDict == [k \in {} |-> <<>>]

\* re.finditer over the argument text, filling the parameter map
RECURSIVE ParseParams(_, _, _)
ParseParams(s, p, params) ==
  IF p > Len(s) THEN params
  ELSE LET m == MatchParamAt(s, p)
       IN  IF m.matched
           THEN ParseParams(s, m.next, DictPut(params, m.key, m.value))
           ELSE ParseParams(s, p + 1, params)

parse_macro(instruction) ==
  LET m == MatchMacro(Strip(instruction))
  IN  IF ~m.matched THEN Null
      ELSE [null    |-> FALSE,
            command |-> Upper(m.group1),
            params  |-> IF m.group2 # <<>>
                        THEN ParseParams(m.group2, 1, EmptyDict)
                        ELSE EmptyDict]

\* ------------------------------------------------------------------------
\* Command names and parameter keys as texts
\* ------------------------------------------------------------------------

CLICK_ELEMENT == <<"C", "L", "I", "C", "K", "_", "E", "L", "E", "M", "E", "N", "T">>
SCROLL_PAGE   == <<"S", "C", "R", "O", "L", "L", "_", "P", "A", "G", "E">>
SAVE_HTML     == <<"S", "A", "V", "E", "_", "H", "T", "M", "L">>
WAIT          == <<"W", "A", "I", "T">>
EXTRACT_TEXT  == <<"E", "X", "T", "R", "A", "C", "T", "_", "T", "E", "X", "T">>

KSelector  == <<"s", "e", "l", "e", "c", "t", "o", "r">>
KType      == <<"t", "y", "p", "e">>
KDirection == <<"d", "i", "r", "e", "c", "t", "i", "o", "n">>
KPixels    == <<"p", "i", "x", "e", "l", "s">>
KFilename  == <<"f", "i", "l", "e", "n", "a", "m", "e">>
KSeconds   == <<"s", "e", "c", "o", "n", "d", "s">>

TCss    == <<"c", "s", "s">>
TDown   == <<"d", "o", "w", "n">>
TUp     == <<"u", "p">>
TTop    == <<"t", "o", "p">>
TBottom == <<"b", "o", "t", "t", "o", "m">>

\* ------------------------------------------------------------------------
\* int() and float() of a text
\* ------------------------------------------------------------------------

\* the text without a leading sign
Unsigned(s) == IF Len(s) > 0 /\ s[1] \in {"+", "-"} THEN Slice(s, 2, Len(s)) ELSE s

\* int(str) succeeds: optional whitespace, optional sign, decimal digits
IsIntText(s) ==
  LET u == Unsigned(Strip(s))
  IN  Len(u) > 0 /\ \A k \in 1..Len(u) : u[k] \in Digits

\* float(str) succeeds: optional whitespace, optional sign, digits with at
\* most one decimal point (exponents, inf and nan are not in the model)
IsFloatText(s) ==
  LET u == Unsigned(Strip(s))
  IN  /\ \E k \in 1..Len(u) : u[k] \in Digits
      /\ \A k \in 1..Len(u) : u[k] \in Digits \cup {"."}
      /\ Cardinality({k \in 1..Len(u) : u[k] = "."}) <= 1

\* int(str) of a text that IsIntText accepts
RECURSIVE DigitsValue(_)
DigitsValue(u) ==
  IF Len(u) = 0 THEN 0
  ELSE 10 * DigitsValue(Slice(u, 1, Len(u) - 1))
       + (CHOOSE d \in 0..9 : <<"0", "1", "2", "3", "4", "5", "6", "7", "8", "9">>[d + 1] = u[Len(u)])

IntValue(s) ==
  LET t == Strip(s)
  IN  IF Len(t) > 0 /\ t[1] = "-" THEN -DigitsValue(Unsigned(t))
      ELSE DigitsValue(Unsigned(t))

\* the number is below zero (time.sleep rejects it)
IsNegativeText(s) ==
  LET t == Strip(s)
  IN  /\ Len(t) > 0 /\ t[1] = "-"
      /\ \E k \in 1..Len(t) : t[k] \in Digits \ {"0"}

\* ------------------------------------------------------------------------
\* ScrapingMacros: the five handlers.  o is what the browser (or the file
\* system) does during the call: "ok", "timeout" or "exception".  Each
\* handler yields its ActionResult and the session calls it made.
\* ------------------------------------------------------------------------

BrowserOutcomes == {"ok", "timeout", "exception"}

\* one call on the session: its name and, for a scroll, the vertical amount
Op(name, arg) == [op |-> name, arg |-> arg]

ActionResult(status, message, payload) ==
  [status |-> status, message |-> message, payload |-> payload]

click_element(driver, selector, selector_type, o) ==
  IF o = "ok"
  THEN [result |-> ActionResult("success", "Clicked element", None),
        ops    |-> <<Op("find_clickable", 0), Op("click", 0)>>]
  ELSE IF o = "timeout"
  THEN [result |-> ActionResult("error", "Timeout waiting for element", None),
        ops    |-> <<Op("find_clickable", 0)>>]
  ELSE [result |-> ActionResult("error", "Error clicking element", None),
        ops    |-> <<Op("find_clickable", 0), Op("click", 0)>>]

scroll_page(driver, direction, pixels, o) ==
  LET d      == Lower(direction)
      \* f"window.scrollBy(0, -{pixels});" of a negative number reads "--30",
      \* which is no JavaScript expression: execute_script raises
      badJs  == d = TUp /\ pixels < 0
      script == IF d = TDown THEN <<Op("scrollBy", pixels)>>
                ELSE IF d = TUp /\ ~badJs THEN <<Op("scrollBy", -pixels)>>
                ELSE IF d = TUp THEN <<Op("invalid script", pixels)>>
                ELSE IF d = TTop THEN <<Op("scrollTo", 0)>>
                ELSE IF d = TBottom THEN <<Op("scrollToBottom", 0)>>
                ELSE <<>>
  IN  IF script = <<>>
      THEN [result |-> ActionResult("success", "Scrolled", None), ops |-> <<>>]
      ELSE IF o = "ok" /\ ~badJs
      THEN [result |-> ActionResult("success", "Scrolled", None),
            ops    |-> script]
      ELSE [result |-> ActionResult("error", "Error scrolling", None),
            ops    |-> script]

save_html(driver, filename, job_id, o) ==
  IF o = "ok"
  THEN [result |-> ActionResult("success", "HTML saved to", "file"),
        ops    |-> <<Op("page_source", 0)>>]
  ELSE [result |-> ActionResult("error", "Error saving HTML", None),
        ops    |-> <<Op("page_source", 0)>>]

wait_seconds(driver, seconds, o) ==
  IF IsNegativeText(seconds)
  THEN [result |-> ActionResult("error", "Error waiting", None), ops |-> <<>>]
  ELSE [result |-> ActionResult("success", "Waited", None), ops |-> <<>>]

extract_text(driver, selector, selector_type, o) ==
  IF o = "ok"
  THEN [result |-> ActionResult("success", "Extracted text from", "data"),
        ops    |-> <<Op("find_present", 0), Op("text", 0)>>]
  ELSE IF o = "timeout"
  THEN [result |-> ActionResult("error", "Timeout waiting for element", None),
        ops    |-> <<Op("find_present", 0)>>]
  ELSE [result |-> ActionResult("error", "Error extracting text", None),
        ops    |-> <<Op("find_present", 0), Op("text", 0)>>]

\* ------------------------------------------------------------------------
\* ScrapingEngine.execute_instruction
\* ------------------------------------------------------------------------

\* the outcome of one call: the ActionResult, the handler invoked (None if
\* none was) and the session calls made
Executed(result, handler, ops) ==
  [result |-> result, handler |-> handler, ops |-> ops]

Invoked(name, h) == Executed(h.result, name, h.ops)

\* a line that is no macro passes as a step that succeeded
InvalidInstruction_skipped(instruction) ==
  Executed(ActionResult("success", "Skipped", None), None, <<>>)

\* lines 195-196: the line is no macro
InvalidInstruction(instruction) ==
  Executed(ActionResult("error", "Invalid instruction format", None), None, <<>>)

\* an unknown command falls through to the click handler
UnknownCommand_click(drv, command, params, o) ==
  Invoked("click_element", click_element(drv, <<>>, TCss, o))

\* lines 225-226: the command is none of the five
UnknownCommand(drv, command, params, o) ==
  Executed(ActionResult("error", "Unknown command", None), None, <<>>)

\* an exception raised inside the try block of execute_instruction
Raise(exc) == [exc |-> exc, handler |-> None, ops |-> <<>>]

IsRaise(x) == "exc" \in DOMAIN x

\* lines 202-226: the if/elif chain on the command name
Dispatch(driver, command, params, job_id, o) ==
  IF command = CLICK_ELEMENT
  THEN Invoked("click_element",
         click_element(driver, DictGet(params, KSelector, <<>>),
                       DictGet(params, KType, TCss), o))
  ELSE IF command = SCROLL_PAGE
  THEN IF KPixels \in DOMAIN params /\ ~IsIntText(params[KPixels])
       THEN Raise("ValueError")
       ELSE Invoked("scroll_page",
              scroll_page(driver, DictGet(params, KDirection, TDown),
                          IF KPixels \in DOMAIN params
                          THEN IntValue(params[KPixels]) ELSE 500, o))
  ELSE IF command = SAVE_HTML
  THEN Invoked("save_html",
         save_html(driver, DictGet(params, KFilename, None), job_id, o))
  ELSE IF command = WAIT
  THEN IF KSeconds \in DOMAIN params /\ ~IsFloatText(params[KSeconds])
       THEN Raise("ValueError")
       ELSE Invoked("wait_seconds",
              wait_seconds(driver, DictGet(params, KSeconds, <<"2">>), o))
  ELSE IF command = EXTRACT_TEXT
  THEN Invoked("extract_text",
         extract_text(driver, DictGet(params, KSelector, <<>>),
                      DictGet(params, KType, TCss), o))
  ELSE UnknownCommand(driver, command, params, o)

\* a dispatcher without the except clause: the exception leaves the call
ExceptClause_missing(command, x) == x

\* lines 228-229: except Exception turns what the try block raised into an
\* error result
ExceptClause(command, x) ==
  IF IsRaise(x)
  THEN Executed(ActionResult("error", "Error executing", None), None, <<>>)
  ELSE x

execute_instruction(driver, instruction, job_id, o) ==
  LET parsed == parse_macro(instruction)
  IN  IF parsed = Null
      THEN InvalidInstruction(instruction)
      ELSE ExceptClause(parsed.command,
                        Dispatch(driver, parsed.command, parsed.params, job_id, o))

\* ------------------------------------------------------------------------
\* Job snapshots given to run_scraping_job
\* ------------------------------------------------------------------------

LBlank     == <<>>
LSpaces    == <<" ", "\t">>
LHash      == <<"#", "c">>
LSlash     == <<" ", "/", "/", "c">>
LWait      == <<"W", "A", "I", "T", "(", ")">>
LWaitBad   == <<" ", "w", "a", "i", "t", "(", "s", "e", "c", "o", "n", "d", "s", "=", "x", ")">>
LNotAMacro == <<"N", "O", "T", "_", "A", "_", "M", "A", "C", "R", "O">>
LFoo       == <<"F", "O", "O", "(", ")">>
LClick     == <<"C", "L", "I", "C", "K", "_", "E", "L", "E", "M", "E", "N", "T", "(",
                "s", "e", "l", "e", "c", "t", "o", "r", "=", "'", "#", "g", "o", "'", ")">>

\* the lines instruction texts are made of
LinePool ==
  {LBlank, LSpaces, LHash, LSlash, LWait, LWaitBad, LNotAMacro, LFoo, LClick}

LineSeqs(n) == UNION {[1..k -> LinePool] : k \in 0..n}

InstructionTexts == {JoinLines(ls) : ls \in LineSeqs(MaxLines)}

JobSnapshots ==
  [id : {1}, url : {"url"}, selenium_instructions : InstructionTexts]

\* ------------------------------------------------------------------------
\* State
\* ------------------------------------------------------------------------

VARIABLES
  pc,        \* where run_scraping_job stands
  job,       \* job_data of the run
  driver,    \* self.driver: NoDriver or the session
  results,   \* self.results
  lines,     \* the local list lines of the run
  idx,       \* position of the for loop in lines
  pending,   \* the value of the return statement, held while finally runs
  ret,       \* how the call ended: a returned value or a raised exception
  opened,    \* number of browser sessions created so far
  trace,     \* every parse, handler invocation and session call, in order
  dash,      \* the dashboard: its job-run records and their worker threads
  call,      \* one direct call of a function of the engine and its result
  reuse      \* one engine called several times, and what its calls returned

vars == <<pc, job, driver, results, lines, idx, pending, ret, opened, trace,
          dash, call, reuse>>

\* no run was triggered on the dashboard
NoDash == [sessions |-> 0, runs |-> <<>>]

\* no function was called directly
NoCall == [fn |-> "none"]

NoDriver == 0

NoJob == [id |-> 0, url |-> "", selenium_instructions |-> <<>>]

NoResult == [status |-> "none"]

NotEnded == [kind |-> "none"]

Returned(value) == [kind |-> "return", value |-> value]

Raised(message) == [kind |-> "raise", value |-> [status |-> "exception", message |-> message]]

\* an entry of trace; line is the position in lines (0 outside the loop)
Event(ev, line, what, arg) == [ev |-> ev, line |-> line, what |-> what, arg |-> arg]

SessionEvents(line, ops) ==
  [k \in 1..Len(ops) |-> Event("session", line, ops[k].op, ops[k].arg)]

\* ScrapingEngine(headless=True)
NewEngine ==
  [pc |-> "idle", job |-> NoJob, driver |-> NoDriver, results |-> <<>>,
   lines |-> <<>>, idx |-> 0, pending |-> NoResult, ret |-> NotEnded,
   trace |-> <<>>]

\* an engine kept for several calls of run_scraping_job: the engine, the
\* list objects made so far with their contents, the one self.results
\* refers to, what the finished calls returned, and the sessions created
NoReuse ==
  [eng |-> NewEngine, lists |-> << <<>> >>, cur |-> 1, returned |-> <<>>,
   sessions |-> 0]

\* ScrapingEngine.__init__
Init ==
  /\ pc = "idle"
  /\ job = NoJob
  /\ driver = NoDriver
  /\ results = <<>>
  /\ lines = <<>>
  /\ idx = 0
  /\ pending = NoResult
  /\ ret = NotEnded
  /\ opened = 0
  /\ trace = <<>>
  /\ dash = NoDash
  /\ call = NoCall
  /\ reuse = NoReuse

\* ------------------------------------------------------------------------
\* ScrapingEngine.setup_driver
\* ------------------------------------------------------------------------

\* a setup that reports success although no session was created
setup_driver_swallow(drv, session, o) ==
  [driver |-> IF o = "ok" THEN session ELSE drv,
   result |-> [status |-> "success", message |-> "WebDriver initialized",
               cause |-> ""]]

\* what webdriver.Chrome(...) can raise
SetupErrors == {"chromedriver not found", "session not created"}

\* o is "ok" or the exception raised; cause is the str(e) of the message
setup_driver(drv, session, o) ==
  IF o = "ok"
  THEN [driver |-> session,
        result |-> [status |-> "success", message |-> "WebDriver initialized",
                    cause |-> ""]]
  ELSE [driver |-> drv,
        result |-> [status |-> "error", message |-> "Failed to initialize WebDriver",
                    cause |-> o]]

\* ------------------------------------------------------------------------
\* ScrapingEngine.run_scraping_job
\* ------------------------------------------------------------------------

\* [line.strip() for line in instructions.split('\n') if line.strip()]
InstructionLines(instructions) ==
  IF instructions = <<>> THEN <<>>
  ELSE LET sp       == SplitLines(instructions)
           stripped == [k \in 1..Len(sp) |-> Strip(sp[k])]
           NonEmpty(l) == l # <<>>
       IN  SelectSeq(stripped, NonEmpty)

\* a test that knows the '#' comments only
IsComment_hashOnly(line) == StartsWith(line, <<"#">>)

\* a loop without the comment test
IsComment_never(line) == FALSE

\* line.startswith('#') or line.startswith('//')
IsComment(line) == StartsWith(line, <<"#">>) \/ StartsWith(line, <<"/", "/">>)

\* a loop that goes on after a failed step
BreakOnError_never(result) == FALSE

\* the loop stops after a step with error status
BreakOnError(result) == result.status = "error"

\* a finally block that releases nothing
QuitNeeded_never(drv) == FALSE

\* the session is released when there is one
QuitNeeded(drv) == drv # NoDriver

SuccessResult(res) ==
  [status |-> "success", message |-> "Scraping job completed", results |-> res]

ErrorResult == [status |-> "error", message |-> "Error during scraping"]

\* the navigation recorded as a step of an instruction
NavigationEntry_asStep(jd) ==
  [instruction |-> <<>>, result |-> [status |-> "success", message |-> "Navigated to"]]

\* line 247: the entry recorded for the navigation; it has no instruction
NavigationEntry(jd) == [status |-> "success", message |-> "Navigated to"]

\* lines 233-242: reset the results, create the session, return on failure
StartRun(jd, o) ==
  /\ pc = "idle"
  /\ LET s == setup_driver(driver, opened + 1, o)
     IN  /\ job' = jd
         /\ results' = <<>>
         /\ driver' = s.driver
         /\ opened' = IF o = "ok" THEN opened + 1 ELSE opened
         /\ trace' = Append(trace, Event("setup", 0, o, 0))
         /\ IF s.result.status = "error"
            THEN /\ ret' = Returned(s.result)
                 /\ pc' = "returned"
            ELSE /\ ret' = ret
                 /\ pc' = "navigating"
  /\ UNCHANGED <<lines, idx, pending, dash, call, reuse>>

\* lines 246-251: load the URL, record it, split the instructions
Navigate(o) ==
  /\ pc = "navigating"
  /\ trace' = Append(trace, Event("get", 0, o, driver))
  /\ IF o = "ok"
     THEN /\ results' = Append(results, NavigationEntry(job))
          /\ lines' = InstructionLines(job.selenium_instructions)
          /\ idx' = 1
          /\ pc' = "executing"
          /\ UNCHANGED pending
     ELSE /\ pending' = ErrorResult
          /\ pc' = "finalizing"
          /\ UNCHANGED <<results, lines, idx>>
  /\ UNCHANGED <<job, driver, ret, opened, dash, call, reuse>>

\* lines 253-256: a comment line is passed over
SkipComment ==
  /\ pc = "executing"
  /\ idx <= Len(lines)
  /\ IsComment(lines[idx])
  /\ idx' = idx + 1
  /\ UNCHANGED <<pc, job, driver, results, lines, pending, ret, opened, trace,
                 dash, call, reuse>>

\* lines 258-266: execute one line, record its step, stop on error; an
\* exception leaving execute_instruction would reach the except at line 274
ExecuteLine(o) ==
  /\ pc = "executing"
  /\ idx <= Len(lines)
  /\ ~IsComment(lines[idx])
  /\ LET line == lines[idx]
         x    == execute_instruction(driver, line, job.id, o)
     IN  /\ trace' = trace \o <<Event("parse", idx, "parse_macro", 0)>>
                       \o (IF x.handler = None THEN <<>>
                           ELSE <<Event("handler", idx, x.handler, driver)>>)
                       \o SessionEvents(idx, x.ops)
         /\ IF IsRaise(x)
            THEN /\ pending' = ErrorResult
                 /\ pc' = "finalizing"
                 /\ UNCHANGED <<results, idx>>
            ELSE /\ results' = Append(results, [instruction |-> line, result |-> x.result])
                 /\ idx' = IF BreakOnError(x.result) THEN Len(lines) + 1 ELSE idx + 1
                 /\ UNCHANGED <<pc, pending>>
  /\ UNCHANGED <<job, driver, lines, ret, opened, dash, call, reuse>>

\* lines 268-272: the loop is over, the return value is built
LoopDone ==
  /\ pc = "executing"
  /\ idx > Len(lines)
  /\ pending' = SuccessResult(results)
  /\ pc' = "finalizing"
  /\ UNCHANGED <<job, driver, results, lines, idx, ret, opened, trace, dash, call, reuse>>

\* lines 277-279: finally; an exception of driver.quit() replaces the return
Finalize(o) ==
  /\ pc = "finalizing"
  /\ IF QuitNeeded(driver)
     THEN /\ trace' = Append(trace, Event("quit", 0, o, driver))
          /\ IF o = "ok"
             THEN ret' = Returned(pending) /\ pc' = "returned"
             ELSE ret' = Raised("quit failed") /\ pc' = "raised"
     ELSE /\ trace' = trace
          /\ ret' = Returned(pending)
          /\ pc' = "returned"
  /\ UNCHANGED <<job, driver, results, lines, idx, pending, opened, dash, call, reuse>>

\* the caller hands a job snapshot to an idle engine
RunJob == pc = "idle" /\ \E jd \in JobSnapshots, o \in {"ok"} \cup SetupErrors : StartRun(jd, o)

Next ==
  \/ RunJob
  \/ \E o \in {"ok", "exception"} : Navigate(o)
  \/ SkipComment
  \/ \E o \in BrowserOutcomes : ExecuteLine(o)
  \/ LoopDone
  \/ \E o \in {"ok", "exception"} : Finalize(o)

Spec == Init /\ [][Next]_vars

\* ------------------------------------------------------------------------
\* What the properties speak about
\* ------------------------------------------------------------------------

\* an entry of the result sequence that records an instruction
IsStep(e) == "instruction" \in DOMAIN e

StepIdx == {k \in 1..Len(results) : IsStep(results[k])}

ErrorSteps == {k \in StepIdx : results[k].result.status = "error"}

\* the value carries a step-result sequence
HasResults(v) == "results" \in DOMAIN v

EventsOf(kind) == {k \in 1..Len(trace) : trace[k].ev = kind}

Ended == pc \in {"returned", "raised"}

NavigationSucceeded == \E k \in EventsOf("get") : trace[k].what = "ok"

NavigationFailed == \E k \in EventsOf("get") : trace[k].what # "ok"

SetupFailed == \E k \in EventsOf("setup") : trace[k].what # "ok"

\* the instruction lines of the text that are neither blank nor a comment
InstructionLineCount == Cardinality({k \in 1..Len(lines) : ~IsComment(lines[k])})

\* ------------------------------------------------------------------------
\* C1: once a step with error status is recorded, no later line is parsed,
\* dispatched or recorded: the result sequence holds at most one error step
\* and that step is its last element.
\* ------------------------------------------------------------------------
C1_AbortOnFirstError ==
  /\ [](/\ Cardinality(ErrorSteps) <= 1
        /\ \A k \in ErrorSteps : k = Len(results))
  /\ [][ErrorSteps # {} =>
          /\ results' = results
          /\ \A k \in (Len(trace) + 1)..Len(trace') : trace'[k].ev = "quit"]_vars

\* instructions [A: success, B: error, C]: the run ended with A and B only
C1_Witness ==
  /\ pc = "returned"
  /\ InstructionLineCount = 3
  /\ Len(results) = 3
  /\ results[2].result.status = "success"
  /\ results[3].result.message = "Timeout waiting for element"

\* ------------------------------------------------------------------------
\* C2: the overall status returned is success exactly when every recorded
\* step succeeded, and error whenever a recorded step has error status.
\* ------------------------------------------------------------------------
C2_StatusIffAllStepsSucceeded ==
  (pc = "returned" /\ NavigationSucceeded) =>
     (ret.value.status = "success" <=> ErrorSteps = {})

\* ------------------------------------------------------------------------
\* C3: at most one session is opened per run; a session that was opened is
\* closed by exactly one driver.quit() before the call ends, on every path;
\* after a failed setup nothing is closed.
\* ------------------------------------------------------------------------
C3_SessionReleasedOnce ==
  /\ opened <= 1
  /\ Cardinality(EventsOf("quit")) <= opened
  /\ \A k \in EventsOf("quit") : trace[k].arg = driver /\ driver # NoDriver
  /\ Ended => Cardinality(EventsOf("quit")) = opened
  /\ SetupFailed => (opened = 0 /\ EventsOf("quit") = {})

\* a navigation exception: the session was opened and closed once
C3_Witness ==
  /\ pc = "returned"
  /\ NavigationFailed
  /\ opened = 1
  /\ Cardinality(EventsOf("quit")) = 1

\* ------------------------------------------------------------------------
\* C4: run_scraping_job always ends by returning a RunResult with status
\* success or error; no exception leaves it, whatever the browser does.
\* ------------------------------------------------------------------------
C4_NoExceptionEscapes ==
  Ended => (ret.kind = "return" /\ ret.value.status \in {"success", "error"})

\* ------------------------------------------------------------------------
\* The instructions of a text, read off the text itself
\* ------------------------------------------------------------------------

\* the text is empty or whitespace only
BlankText(t) == \A k \in 1..Len(t) : t[k] \in Whitespace

\* the text begins with '#' or with '//'
CommentText(t) ==
  \/ Len(t) >= 1 /\ t[1] = "#"
  \/ Len(t) >= 2 /\ t[1] = "/" /\ t[2] = "/"

\* the lines of raw, surrounding whitespace removed, without the blank lines
\* and the comments
RECURSIVE SourceInstructions(_)
SourceInstructions(raw) ==
  IF Len(raw) = 0 THEN <<>>
  ELSE LET t    == Strip(Head(raw))
           rest == SourceInstructions(Tail(raw))
       IN  IF BlankText(t) \/ CommentText(t) THEN rest ELSE <<t>> \o rest

\* the instruction texts of the recorded steps, in order
RecordedTexts ==
  LET steps == SelectSeq(results, IsStep)
  IN  [k \in 1..Len(steps) |-> steps[k].instruction]

\* the parse_macro calls of the run, in order: one per recorded step
ParseEvents ==
  LET IsParse(e) == e.ev = "parse"
  IN  SelectSeq(trace, IsParse)

\* position in lines of the line that step k of results records
StepLine(k) == ParseEvents[Cardinality({i \in StepIdx : i <= k})].line

\* nothing but parse_macro was called for line j and no later line was touched
OnlyParsedAndLast(j) ==
  /\ \A e \in 1..Len(trace) : trace[e].line <= j
  /\ \A e \in 1..Len(trace) : trace[e].line = j => trace[e].ev = "parse"
  /\ Cardinality({e \in 1..Len(trace) : trace[e].line = j}) = 1

FiveCommands == {CLICK_ELEMENT, SCROLL_PAGE, SAVE_HTML, WAIT, EXTRACT_TEXT}

\* ------------------------------------------------------------------------
\* C5: the instruction texts recorded are a prefix, in source order and
\* without gaps or repeats, of the non-blank non-comment lines of the text
\* (lines taken without their surrounding whitespace); the returned sequence
\* is the whole of them when no step failed and ends at the first failed
\* step otherwise.
\* ------------------------------------------------------------------------
C5_RecordedIsSourcePrefix ==
  LET exp == SourceInstructions(SplitLines(job.selenium_instructions))
      rec == RecordedTexts
  IN  /\ Len(rec) <= Len(exp)
      /\ rec = SubSeq(exp, 1, Len(rec))
      /\ (pc = "returned" /\ HasResults(ret.value)) =>
            /\ ret.value.results = results
            /\ IF ErrorSteps = {} THEN Len(rec) = Len(exp)
               ELSE ErrorSteps = {Len(results)}

\* a text of two instructions around a '//' comment, both recorded
C5_Witness ==
  /\ pc = "returned"
  /\ HasResults(ret.value)
  /\ Len(lines) = 3
  /\ StartsWith(lines[2], <<"/", "/">>)
  /\ Len(RecordedTexts) = 2
  /\ ErrorSteps = {}

\* ------------------------------------------------------------------------
\* C6: blank lines and lines starting with '#' or '//' are never parsed,
\* never dispatched and never recorded, and they do not stop the run: when
\* no step failed every instruction line was executed.
\* ------------------------------------------------------------------------
C6_CommentsAndBlanksSkipped ==
  /\ \A k \in StepIdx :
       ~BlankText(results[k].instruction) /\ ~CommentText(results[k].instruction)
  /\ \A e \in 1..Len(trace) :
       trace[e].line > 0 =>
         ~BlankText(lines[trace[e].line]) /\ ~CommentText(lines[trace[e].line])
  /\ (pc \in {"finalizing", "returned", "raised"} /\ NavigationSucceeded
        /\ ErrorSteps = {}) =>
       /\ \A j \in 1..Len(lines) :
            ~CommentText(lines[j]) => \E e \in EventsOf("parse") : trace[e].line = j
       /\ Len(RecordedTexts)
            = Len(SourceInstructions(SplitLines(job.selenium_instructions)))

\* instruction, whitespace-only line, instruction: both instructions ran
C6_Witness ==
  /\ pc = "returned"
  /\ LET raw == SplitLines(job.selenium_instructions)
     IN  /\ Len(raw) = 3
         /\ Len(raw[2]) > 0 /\ BlankText(raw[2])
         /\ ~BlankText(raw[1]) /\ ~CommentText(Strip(raw[1]))
  /\ Len(results) = 3
  /\ ErrorSteps = {}

\* ------------------------------------------------------------------------
\* C7: when the session cannot be created the call returns an error result
\* carrying the underlying error; nothing is navigated, parsed, executed or
\* recorded.
\* ------------------------------------------------------------------------
C7_SetupFailureRunsNothing ==
  SetupFailed =>
    /\ pc = "returned"
    /\ ret = Returned([status  |-> "error",
                       message |-> "Failed to initialize WebDriver",
                       cause   |-> trace[1].what])
    /\ trace[1].what \in SetupErrors
    /\ Len(trace) = 1
    /\ results = <<>>
    /\ driver = NoDriver

C7_Witness ==
  /\ SetupFailed
  /\ ret.kind = "return"
  /\ ret.value.cause = "session not created"
  /\ job.selenium_instructions # <<>>

\* ------------------------------------------------------------------------
\* C8: when loading the URL fails the call returns error status, no line of
\* the job is executed and the session is released.
\* ------------------------------------------------------------------------
C8_NavigationFailureFatal ==
  (NavigationFailed /\ Ended) =>
    /\ ret.kind = "return"
    /\ ret.value.status = "error"
    /\ EventsOf("parse") = {} /\ EventsOf("handler") = {} /\ EventsOf("session") = {}
    /\ StepIdx = {}
    /\ Cardinality(EventsOf("quit")) = 1

\* ------------------------------------------------------------------------
\* C9: a line that parse_macro cannot parse is recorded as exactly one step
\* with error status and the invalid-format message; no handler is invoked
\* for it and no later line is executed.
\* ------------------------------------------------------------------------
C9_ParseFailureAborts ==
  \A k \in StepIdx :
    parse_macro(results[k].instruction) = Null =>
      /\ results[k].result = ActionResult("error", "Invalid instruction format", None)
      /\ k = Len(results)
      /\ OnlyParsedAndLast(StepLine(k))

\* NOT_A_MACRO followed by another instruction: one step, the run is over
C9_Witness ==
  /\ pc = "returned"
  /\ Len(results) = 2
  /\ results[2].instruction = LNotAMacro
  /\ InstructionLineCount >= 2

\* ------------------------------------------------------------------------
\* C10: a parsed command that is none of the five yields the unknown-command
\* error without a handler or a session call, and the run stops there.
\* ------------------------------------------------------------------------
C10_UnknownCommandAborts ==
  \A k \in StepIdx :
    LET parsed == parse_macro(results[k].instruction)
    IN  (parsed # Null /\ parsed.command \notin FiveCommands) =>
          /\ results[k].result = ActionResult("error", "Unknown command", None)
          /\ k = Len(results)
          /\ OnlyParsedAndLast(StepLine(k))

\* FOO() followed by another instruction: one step, the run is over
C10_Witness ==
  /\ pc = "returned"
  /\ Len(results) = 2
  /\ results[2].result.message = "Unknown command"
  /\ InstructionLineCount >= 2

\* ------------------------------------------------------------------------
\* The dashboard (src/app.py): run_job creates a job-run record and starts a
\* worker thread; every thread builds its own ScrapingEngine.  An engine is
\* a record here, stepped by the same code as above.
\* ------------------------------------------------------------------------

\* largest number of runs triggered on the dashboard
MaxRuns == 2

\* the jobs stored on the dashboard, by job id
DashJobs ==
  <<[id |-> 1, url |-> "url1", selenium_instructions |-> JoinLines(<<LHash, LFoo>>)],
    [id |-> 2, url |-> "url2", selenium_instructions |-> JoinLines(<<LClick>>)]>>

\* every driver shares one browser session
NewSession_shared(n) == 1

\* webdriver.Chrome(...) creates a session that did not exist before
NewSession(n) == n + 1

\* run_scraping_job, lines 233-242, on the engine e
EngineStart(e, jd, session, o) ==
  LET s == setup_driver(e.driver, session, o)
  IN  [e EXCEPT !.job = jd,
                !.results = <<>>,
                !.driver = s.driver,
                !.trace = Append(@, Event("setup", 0, o, 0)),
                !.ret = IF s.result.status = "error" THEN Returned(s.result)
                        ELSE NotEnded,
                !.pc = IF s.result.status = "error" THEN "returned" ELSE "navigating"]

\* lines 246-251
EngineNavigate(e, o) ==
  IF o = "ok"
  THEN [e EXCEPT !.trace = Append(@, Event("get", 0, o, e.driver)),
                 !.results = Append(@, NavigationEntry(e.job)),
                 !.lines = InstructionLines(e.job.selenium_instructions),
                 !.idx = 1,
                 !.pc = "executing"]
  ELSE [e EXCEPT !.trace = Append(@, Event("get", 0, o, e.driver)),
                 !.pending = ErrorResult,
                 !.pc = "finalizing"]

\* lines 253-272: one turn of the loop, or the return after it
EngineLoop(e, o) ==
  IF e.idx > Len(e.lines)
  THEN [e EXCEPT !.pending = SuccessResult(e.results), !.pc = "finalizing"]
  ELSE IF IsComment(e.lines[e.idx])
  THEN [e EXCEPT !.idx = @ + 1]
  ELSE LET line == e.lines[e.idx]
           x    == execute_instruction(e.driver, line, e.job.id, o)
           t    == e.trace \o <<Event("parse", e.idx, "parse_macro", 0)>>
                     \o (IF x.handler = None THEN <<>>
                         ELSE <<Event("handler", e.idx, x.handler, e.driver)>>)
                     \o SessionEvents(e.idx, x.ops)
       IN  IF IsRaise(x)
           THEN [e EXCEPT !.trace = t, !.pending = ErrorResult, !.pc = "finalizing"]
           ELSE [e EXCEPT !.trace = t,
                          !.results = Append(@, [instruction |-> line, result |-> x.result]),
                          !.idx = IF BreakOnError(x.result) THEN Len(e.lines) + 1 ELSE @ + 1]

\* lines 277-279
EngineFinalize(e, o) ==
  IF QuitNeeded(e.driver)
  THEN [e EXCEPT !.trace = Append(@, Event("quit", 0, o, e.driver)),
                 !.ret = IF o = "ok" THEN Returned(e.pending) ELSE Raised("quit failed"),
                 !.pc = IF o = "ok" THEN "returned" ELSE "raised"]
  ELSE [e EXCEPT !.ret = Returned(e.pending), !.pc = "returned"]

\* the variables of the single engine above
evars == <<pc, job, driver, results, lines, idx, pending, ret, opened, trace>>

Runs == 1..Len(dash.runs)

\* run_job, lines 131-152: the record is stored as 'running', the thread starts
TriggerRun(j) ==
  /\ Len(dash.runs) < MaxRuns
  /\ dash' = [dash EXCEPT !.runs = Append(@, [job_id |-> j, status |-> "running",
                                              tpc |-> "spawned", eng |-> NewEngine])]
  /\ UNCHANGED <<evars, call, reuse>>

\* execute_scraping, lines 141-143: a new engine, the job snapshot, and the
\* call of run_scraping_job up to the session setup
ThreadStart(r, o) ==
  /\ dash.runs[r].tpc = "spawned"
  /\ dash' = [dash EXCEPT
                !.sessions = IF o = "ok" THEN NewSession(@) ELSE @,
                !.runs[r].tpc = "running",
                !.runs[r].eng = EngineStart(NewEngine, DashJobs[dash.runs[r].job_id],
                                            NewSession(dash.sessions), o)]
  /\ UNCHANGED <<evars, call, reuse>>

\* the thread is inside run_scraping_job
ThreadNavigate(r, o) ==
  /\ dash.runs[r].tpc = "running" /\ dash.runs[r].eng.pc = "navigating"
  /\ dash' = [dash EXCEPT !.runs[r].eng = EngineNavigate(@, o)]
  /\ UNCHANGED <<evars, call, reuse>>

ThreadLoop(r, o) ==
  /\ dash.runs[r].tpc = "running" /\ dash.runs[r].eng.pc = "executing"
  /\ dash' = [dash EXCEPT !.runs[r].eng = EngineLoop(@, o)]
  /\ UNCHANGED <<evars, call, reuse>>

ThreadFinalize(r, o) ==
  /\ dash.runs[r].tpc = "running" /\ dash.runs[r].eng.pc = "finalizing"
  /\ dash' = [dash EXCEPT !.runs[r].eng = EngineFinalize(@, o)]
  /\ UNCHANGED <<evars, call, reuse>>

\* lines 146-149: the result is written to the job-run record
ThreadRecord(r) ==
  /\ dash.runs[r].tpc = "running" /\ dash.runs[r].eng.pc = "returned"
  /\ dash' = [dash EXCEPT
                !.runs[r].status = IF dash.runs[r].eng.ret.value.status = "success"
                                   THEN "completed" ELSE "failed",
                !.runs[r].tpc = "done"]
  /\ UNCHANGED <<evars, call, reuse>>

\* an exception leaving run_scraping_job at line 143 ends the thread; lines
\* 146-149 are not reached
ThreadDies(r) ==
  /\ dash.runs[r].tpc = "running" /\ dash.runs[r].eng.pc = "raised"
  /\ dash' = [dash EXCEPT !.runs[r].tpc = "dead"]
  /\ UNCHANGED <<evars, call, reuse>>

DashNext ==
  \/ \E j \in 1..Len(DashJobs) : TriggerRun(j)
  \/ \E r \in Runs, o \in {"ok", "session not created"} : ThreadStart(r, o)
  \/ \E r \in Runs, o \in {"ok", "exception"} : ThreadNavigate(r, o)
  \/ \E r \in Runs, o \in {"ok", "timeout"} : ThreadLoop(r, o)
  \/ \E r \in Runs, o \in {"ok", "exception"} : ThreadFinalize(r, o)
  \/ \E r \in Runs : ThreadRecord(r)
  \/ \E r \in Runs : ThreadDies(r)

SpecDash == Init /\ [][DashNext]_vars

\* the instruction texts of the steps of a result sequence, in order
TextsOf(res) ==
  LET steps == SelectSeq(res, IsStep)
  IN  [k \in 1..Len(steps) |-> steps[k].instruction]

\* the sessions a run created, drove or closed, read off its calls
SessionsUsedBy(r) ==
  {dash.runs[r].eng.trace[k].arg :
     k \in {i \in 1..Len(dash.runs[r].eng.trace) :
              dash.runs[r].eng.trace[i].ev \in {"get", "handler", "quit"}}}

\* ------------------------------------------------------------------------
\* C11: runs started concurrently by the dashboard, also two runs of the
\* same job, each use a session of their own and a result sequence of their
\* own: a run records only steps of its own instructions, drives and closes
\* only its own session, and a step of one run changes nothing of another.
\* ------------------------------------------------------------------------
C11_ConcurrentRunsIndependent ==
  /\ [](\A r \in Runs :
          LET e == dash.runs[r].eng
          IN  /\ SessionsUsedBy(r) \subseteq {e.driver} \ {NoDriver}
              /\ \A q \in Runs \ {r} :
                   e.driver # NoDriver => dash.runs[q].eng.driver # e.driver
              /\ LET own == SourceInstructions(SplitLines(
                              DashJobs[dash.runs[r].job_id].selenium_instructions))
                     rec == TextsOf(e.results)
                 IN  Len(rec) <= Len(own) /\ rec = SubSeq(own, 1, Len(rec))
              /\ (e.ret.kind = "return" /\ HasResults(e.ret.value)) =>
                   e.ret.value.results = e.results)
  /\ [][\A r \in Runs : \A q \in Runs \ {r} :
          dash'.runs[r] # dash.runs[r] => dash'.runs[q] = dash.runs[q]]_vars

\* two runs of the same job, the second thread first to get its session; the
\* first run died closing its session, the second is recorded as completed
C11_Witness ==
  /\ Len(dash.runs) = 2
  /\ dash.runs[1].job_id = dash.runs[2].job_id
  /\ dash.runs[1].eng.driver = 2 /\ dash.runs[2].eng.driver = 1
  /\ dash.runs[1].tpc = "dead"
  /\ dash.runs[2].status = "completed"
  /\ Len(dash.runs[2].eng.results) = 2

\* ------------------------------------------------------------------------
\* C20: every job-run record created as 'running' ends as 'completed' or
\* 'failed' once its thread is over, 'completed' exactly when the RunResult
\* has status success; no record is left 'running'.
\* ------------------------------------------------------------------------
C20_RunRecordSettles ==
  \A r \in Runs :
    dash.runs[r].tpc \in {"done", "dead"} =>
      /\ dash.runs[r].status \in {"completed", "failed"}
      /\ dash.runs[r].status = "completed" <=>
           (dash.runs[r].eng.ret.kind = "return"
              /\ dash.runs[r].eng.ret.value.status = "success")

\* ------------------------------------------------------------------------
\* Direct calls of parse_macro, execute_instruction and
\* get_macro_documentation, one call per step, on inputs of bounded size
\* ------------------------------------------------------------------------

\* longest line made of the characters of RawAlphabet
MaxChars == 4

\* largest number of key=value pairs in a line built from a shape
MaxPairs == 2

\* document.body.scrollHeight of the page, in pixels
PageMax == 1000

RawAlphabet == {"a", "(", ")", " "}

\* every line of at most MaxChars characters over RawAlphabet
RawLines == UNION {[1..n -> RawAlphabet] : n \in 0..MaxChars}

\* lines written as NAME(k1=v1, k2=v2): the name, and for each pair the
\* key, the value and the quote around the value ("" is no quote)
ShapeNames == {<<"w">>, <<"G", "o">>}

ShapeKeys == {<<"k">>, <<"p", "x">>}

ShapeValues == {<<"v">>, <<"1", "0">>, <<"(", "2", ")">>}

ShapeQuotes == {"", "'", "\""}

ShapePairs == [key : ShapeKeys, value : ShapeValues, quote : ShapeQuotes]

Shapes ==
  [name : ShapeNames, pairs : UNION {[1..n -> ShapePairs] : n \in 0..MaxPairs}]

\* the line was not built from a shape
NoShape == [name |-> <<>>, pairs |-> <<>>]

Quoted(q, v) == IF q = "" THEN v ELSE <<q>> \o v \o <<q>>

PairText(p) == p.key \o <<"=">> \o Quoted(p.quote, p.value)

RECURSIVE ArgsText(_)
ArgsText(pairs) ==
  IF Len(pairs) = 0 THEN <<>>
  ELSE IF Len(pairs) = 1 THEN PairText(pairs[1])
  ELSE PairText(pairs[1]) \o <<",", " ">> \o ArgsText(Tail(pairs))

MacroText(name, pairs) == name \o <<"(">> \o ArgsText(pairs) \o <<")">>

\* engine.parse_macro(line)
CallParse(line, shape) ==
  /\ call = NoCall
  /\ call' = [fn |-> "parse_macro", line |-> line, shape |-> shape,
              out |-> parse_macro(line)]
  /\ UNCHANGED <<evars, dash, reuse>>

ParseCalled == call.fn = "parse_macro"

\* the stripped line is wholly NAME(args): one or more word characters, an
\* opening parenthesis, and a closing parenthesis as its last character
WhollyMacro(s) ==
  LET e == WordRunEnd(s, 1)
  IN  e > 1 /\ e < Len(s) /\ s[e] = "(" /\ s[Len(s)] = ")"

\* ------------------------------------------------------------------------
\* C12: parse_macro returns null for every line that, stripped, is not
\* wholly of the shape NAME(args); a line with text after the closing
\* parenthesis, or without parentheses, is rejected.
\* ------------------------------------------------------------------------
C12_NotWhollyMacroRejected ==
  ParseCalled => (~WhollyMacro(Strip(call.line)) => call.out = Null)

\* the line was built from a shape
Shaped == ParseCalled /\ call.shape # NoShape

KeysOf(pairs) == {pairs[i].key : i \in 1..Len(pairs)}

DistinctKeys(pairs) ==
  \A i, j \in 1..Len(pairs) : pairs[i].key = pairs[j].key => i = j

\* the keys of the line, each with the value written at its last occurrence
LiteralParams(pairs) ==
  [k \in KeysOf(pairs) |->
     pairs[CHOOSE i \in 1..Len(pairs) :
             /\ pairs[i].key = k
             /\ \A j \in 1..Len(pairs) : pairs[j].key = k => j <= i].value]

\* ------------------------------------------------------------------------
\* C13: for every line NAME(k1=v1, k2=v2), parsing it again gives the same
\* ParsedCommand, the command is the name of the line (in upper case) and
\* the parameter map has exactly the keys of the line, each with its
\* literal value without the surrounding matching quotes.
\* ------------------------------------------------------------------------
C13_ParseYieldsLiteralPairs ==
  (Shaped /\ DistinctKeys(call.shape.pairs)) =>
    /\ call.out = parse_macro(call.line)
    /\ call.out # Null
    /\ call.out.command = Upper(call.shape.name)
    /\ call.out.params = LiteralParams(call.shape.pairs)

\* the argument text taken at line 177 is the whole argument list of the line
ArgsCaptured ==
  LET m == MatchMacro(Strip(call.line))
  IN  m.matched /\ m.group2 = ArgsText(call.shape.pairs)

ScrollDirections == {<<>>, TDown, TUp, TTop, TBottom, <<"T", "o", "p">>}

ScrollPixels == {<<>>, <<"8", "0", "0">>, <<"a", "b", "c">>, <<"-", "3", "0">>}

ScrollLine(d, p) ==
  MacroText(SCROLL_PAGE,
    (IF d = <<>> THEN <<>> ELSE <<[key |-> KDirection, value |-> d, quote |-> "'"]>>)
    \o (IF p = <<>> THEN <<>> ELSE <<[key |-> KPixels, value |-> p, quote |-> ""]>>))

LSave == MacroText(SAVE_HTML, <<>>)

LExtract ==
  MacroText(EXTRACT_TEXT, <<[key |-> KSelector, value |-> <<"h", "1">>, quote |-> "'"]>>)

LWaitNeg ==
  MacroText(WAIT, <<[key |-> KSeconds, value |-> <<"-", "1">>, quote |-> ""]>>)

\* the lines execute_instruction is called with
ExecLines ==
  LinePool \cup {LSave, LExtract, LWaitNeg}
    \cup {ScrollLine(d, p) : d \in ScrollDirections, p \in ScrollPixels}

\* vertical offsets of the viewport before the call
Offsets == {0, 300, PageMax}

Clamp(v) == IF v < 0 THEN 0 ELSE IF v > PageMax THEN PageMax ELSE v

\* the vertical offset after the session calls of one handler; a script
\* the browser failed to run moves nothing
RECURSIVE Viewport(_, _, _)
Viewport(y, ops, o) ==
  IF o # "ok" \/ Len(ops) = 0 THEN y
  ELSE LET h == Head(ops)
           y1 == IF h.op = "scrollBy" THEN Clamp(y + h.arg)
                 ELSE IF h.op = "scrollTo" THEN h.arg
                 ELSE IF h.op = "scrollToBottom" THEN PageMax
                 ELSE y
       IN  Viewport(y1, Tail(ops), o)

\* engine.execute_instruction(line) on a session showing a page at offset y0
CallExecute(line, o, y0) ==
  /\ call = NoCall
  /\ LET x == execute_instruction(1, line, 1, o)
     IN  call' = [fn |-> "execute_instruction", line |-> line, o |-> o,
                  out |-> x, y0 |-> y0, y |-> Viewport(y0, x.ops, o)]
  /\ UNCHANGED <<evars, dash, reuse>>

ExecuteCalled == call.fn = "execute_instruction"

Example(text) == [example |-> text]

\* the table without its WAIT entry
get_macro_documentation_noWait ==
  (CLICK_ELEMENT :> Example(LClick)) @@ (SAVE_HTML :> Example(LSave))
    @@ (SCROLL_PAGE :> Example(ScrollLine(TDown, <<"8", "0", "0">>)))
    @@ (EXTRACT_TEXT :> Example(LExtract))

\* lines 281-327: the table of the commands, each with its example line
get_macro_documentation ==
  (CLICK_ELEMENT :>
     Example(MacroText(CLICK_ELEMENT,
       <<[key |-> KSelector, quote |-> "'",
          value |-> <<"b", "u", "t", "t", "o", "n", ".", "s", "u", "b", "m", "i", "t">>],
         [key |-> KType, quote |-> "'", value |-> TCss]>>)))
  @@ (SCROLL_PAGE :> Example(ScrollLine(TDown, <<"8", "0", "0">>)))
  @@ (SAVE_HTML :>
     Example(MacroText(SAVE_HTML,
       <<[key |-> KFilename, quote |-> "'",
          value |-> <<"s", "c", "r", "a", "p", "e", "d", "_", "d", "a", "t", "a",
                      ".", "h", "t", "m", "l">>]>>)))
  @@ (WAIT :>
     Example(MacroText(WAIT, <<[key |-> KSeconds, quote |-> "", value |-> <<"5">>]>>)))
  @@ (EXTRACT_TEXT :>
     Example(MacroText(EXTRACT_TEXT,
       <<[key |-> KSelector, quote |-> "'",
          value |-> <<"h", "1", ".", "t", "i", "t", "l", "e">>],
         [key |-> KType, quote |-> "'", value |-> TCss]>>)))

\* engine.get_macro_documentation()
CallDocs ==
  /\ call = NoCall
  /\ call' = [fn |-> "get_macro_documentation", out |-> get_macro_documentation]
  /\ UNCHANGED <<evars, dash, reuse>>

DocsCalled == call.fn = "get_macro_documentation"

\* the call returns; the engine keeps nothing of it
CallReturn ==
  /\ call # NoCall
  /\ call' = NoCall
  /\ UNCHANGED <<evars, dash, reuse>>

CallsNext ==
  \/ \E line \in RawLines : CallParse(line, NoShape)
  \/ \E sh \in Shapes : CallParse(MacroText(sh.name, sh.pairs), sh)
  \/ \E line \in ExecLines, o \in BrowserOutcomes, y0 \in Offsets :
       CallExecute(line, o, y0)
  \/ CallDocs
  \/ CallReturn

SpecCalls == Init /\ [][CallsNext]_vars

\* the if/elif chain has a branch for the command name
Dispatches(command) ==
  LET x == Dispatch(1, command, EmptyDict, 1, "ok")
  IN  IsRaise(x) \/ x.handler # None

\* names the table and the dispatcher are compared on
CandidateNames ==
  FiveCommands \cup {<<"F", "O", "O">>, <<"H", "E", "L", "P">>, Lower(WAIT)}

\* ------------------------------------------------------------------------
\* C14: get_macro_documentation has an entry for exactly the five commands
\* execute_instruction dispatches on, and the example of each entry parses
\* to a command whose name is the key of the entry.
\* ------------------------------------------------------------------------
C14_DocumentationMatchesDispatch ==
  DocsCalled =>
    /\ Cardinality(DOMAIN call.out) = 5
    /\ \A c \in CandidateNames \cup DOMAIN call.out :
         c \in DOMAIN call.out <=> Dispatches(c)
    /\ \A c \in DOMAIN call.out :
         /\ parse_macro(call.out[c].example) # Null
         /\ parse_macro(call.out[c].example).command = c

\* the table was returned; its WAIT example parses to WAIT with seconds 5
C14_Witness ==
  /\ DocsCalled
  /\ WAIT \in DOMAIN call.out
  /\ parse_macro(call.out[WAIT].example).params[KSeconds] = <<"5">>

\* what parse_macro makes of the line execute_instruction was called with
CalledParsed == parse_macro(call.line)

\* ------------------------------------------------------------------------
\* C15: SCROLL_PAGE with direction top or bottom ignores the pixels value:
\* whatever pixels is, a number or not, the step succeeds and the vertical
\* offset of the viewport becomes 0 for top and the page's maximum for
\* bottom.
\* ------------------------------------------------------------------------
C15_TopBottomIgnorePixels ==
  (/\ ExecuteCalled /\ call.o = "ok"
   /\ CalledParsed # Null
   /\ CalledParsed.command = SCROLL_PAGE
   /\ KDirection \in DOMAIN CalledParsed.params
   /\ Lower(CalledParsed.params[KDirection]) \in {TTop, TBottom}) =>
    /\ ~IsRaise(call.out)
    /\ call.out.result.status = "success"
    /\ call.y = IF Lower(CalledParsed.params[KDirection]) = TTop THEN 0 ELSE PageMax

\* a fault inside the dispatch or a handler: a value that is no number, or
\* the browser or the file system failing a call the handler made
Fault ==
  /\ CalledParsed # Null
  /\ LET d == Dispatch(1, CalledParsed.command, CalledParsed.params, 1, call.o)
     IN  \/ IsRaise(d)
         \/ call.o # "ok" /\ d.ops # <<>>

\* ------------------------------------------------------------------------
\* C18: execute_instruction never raises: for every line and every fault
\* inside the dispatch or a handler it returns an ActionResult with status
\* success or error, and a fault gives status error.
\* ------------------------------------------------------------------------
C18_ExecuteInstructionTotal ==
  ExecuteCalled =>
    /\ ~IsRaise(call.out)
    /\ call.out.result.status \in {"success", "error"}
    /\ Fault => call.out.result.status = "error"

\* WAIT(seconds=x): float() raised inside the try block, the call returned
\* the error result of the except clause
C18_Witness ==
  /\ ExecuteCalled
  /\ call.line = LWaitBad
  /\ IsRaise(Dispatch(1, CalledParsed.command, CalledParsed.params, 1, call.o))
  /\ ~IsRaise(call.out)
  /\ call.out.result = ActionResult("error", "Error executing", None)

\* the step appends a parse or handler event to the trace
TouchesInstruction ==
  /\ Len(trace') > Len(trace)
  /\ trace'[Len(trace) + 1].ev \in {"parse", "handler"}

\* ------------------------------------------------------------------------
\* C16: in every run whose navigation succeeds the first entry of the
\* result sequence is the navigation entry; it is there before any
\* instruction is parsed or executed, occurs once, and has no instruction
\* text, so it is not one of the instruction steps.  Without a successful
\* navigation there is no such entry.
\* ------------------------------------------------------------------------
C16_NavigationEntryFirst ==
  /\ [](/\ NavigationSucceeded =>
             /\ Len(results) >= 1
             /\ results[1] = NavigationEntry(job)
             /\ ~IsStep(results[1])
             /\ \A k \in 2..Len(results) : IsStep(results[k])
             /\ (Ended /\ ret.kind = "return" /\ HasResults(ret.value)) =>
                  /\ ret.value.results[1] = NavigationEntry(job)
                  /\ Len(SelectSeq(ret.value.results, IsStep))
                       = Len(ret.value.results) - 1
        /\ ~NavigationSucceeded => results = <<>>)
  /\ [][TouchesInstruction =>
          /\ Len(results) >= 1
          /\ ~IsStep(results[1])
          /\ results'[1] = results[1]]_vars

\* a run that returned the navigation entry followed by two steps
C16_Witness ==
  /\ pc = "returned"
  /\ HasResults(ret.value)
  /\ Len(ret.value.results) = 3
  /\ ~IsStep(ret.value.results[1])
  /\ IsStep(ret.value.results[2]) /\ IsStep(ret.value.results[3])

\* the place of a phase in Idle, DriverStarting, Navigating,
\* ExecutingInstructions, Finalizing, Completed or Failed; DriverStarting is
\* the call of setup_driver inside the step that leaves Idle
PhaseRank(p) ==
  IF p = "idle" THEN 0
  ELSE IF p = "navigating" THEN 2
  ELSE IF p = "executing" THEN 3
  ELSE IF p = "finalizing" THEN 4
  ELSE 5

\* the session was acquired: the first event is a setup that succeeded
SessionAcquired ==
  /\ Len(trace) >= 1
  /\ trace[1].ev = "setup" /\ trace[1].what = "ok"
  /\ driver # NoDriver

\* ------------------------------------------------------------------------
\* C17: a run goes through Idle, DriverStarting, Navigating,
\* ExecutingInstructions, Finalizing and then Completed or Failed in this
\* order and never back: no navigation before the session is acquired, no
\* handler before the navigation succeeded, no navigation or handler call on
\* the session after its release, and a run that acquired a session is in
\* one of the phases up to Finalizing until it ends, and does not end
\* without Finalizing.
\* ------------------------------------------------------------------------
C17_PhasesInOrder ==
  /\ [](/\ \A g \in EventsOf("get") :
             SessionAcquired /\ g = 2 /\ trace[g].arg = driver
        /\ \A h \in EventsOf("handler") \cup EventsOf("session") :
             \E g \in EventsOf("get") : g < h /\ trace[g].what = "ok"
        /\ \A q \in EventsOf("quit") : q = Len(trace) /\ trace[q].arg = driver
        /\ (pc = "navigating") => SessionAcquired /\ EventsOf("get") = {}
        /\ (pc = "executing") => NavigationSucceeded
        /\ (Ended /\ SessionAcquired) => Cardinality(EventsOf("quit")) = 1
        /\ (SessionAcquired /\ ~Ended) =>
             /\ pc \in {"navigating", "executing", "finalizing"}
             /\ pc = "executing" => idx \in 1..(Len(lines) + 1))
  /\ [][/\ PhaseRank(pc') >= PhaseRank(pc)
        /\ (pc' = "executing" /\ pc # "executing") => pc = "navigating"
        /\ (pc' = "finalizing" /\ pc # "finalizing") => pc \in {"navigating", "executing"}
        /\ (pc' \in {"returned", "raised"} /\ pc # pc') =>
             \/ pc = "finalizing"
             \/ pc = "idle" /\ ~SessionAcquired']_vars

\* a run went through every phase: session, navigation, one handler call,
\* release of the session, return
C17_Witness ==
  /\ pc = "returned"
  /\ SessionAcquired
  /\ NavigationSucceeded
  /\ EventsOf("handler") # {}
  /\ trace[Len(trace)].ev = "quit"

\* ------------------------------------------------------------------------
\* One engine used for several calls of run_scraping_job.  self.results is
\* a reference to a list object, and so is the "results" of a returned
\* value: lists are kept with an identity (their place in reuse.lists).
\* ------------------------------------------------------------------------

\* largest number of calls made on the one engine
MaxCalls == 2

\* a reset that empties the list self.results refers to
ResetResults_inPlace(r) == [r EXCEPT !.lists[r.cur] = <<>>]

\* line 237, self.results = []: a new list object, self.results refers to it
ResetResults(r) ==
  [r EXCEPT !.lists = Append(@, <<>>), !.cur = Len(r.lists) + 1]

\* the value a call ended with, its "results" being the list object
\* self.results refers to (line 271)
ReturnedRef(e, cur) ==
  [job_id |-> e.job.id,
   kind   |-> e.ret.kind,
   value  |-> IF e.ret.kind = "return" /\ HasResults(e.ret.value)
              THEN [status  |-> e.ret.value.status,
                    message |-> e.ret.value.message,
                    results |-> cur]
              ELSE e.ret.value]

\* the engine after a step: appends went to the list self.results refers
\* to, and a call that ended hands its value to the caller
EngineStepped(r, e) ==
  [r EXCEPT !.eng = e,
            !.lists[r.cur] = e.results,
            !.returned = IF e.pc \in {"returned", "raised"}
                         THEN Append(@, ReturnedRef(e, r.cur)) ELSE @]

\* engine.run_scraping_job(job_data) on an engine that is not inside a call
ReuseStart(j, o) ==
  /\ reuse.eng.pc \in {"idle", "returned", "raised"}
  /\ Len(reuse.returned) < MaxCalls
  /\ LET r == ResetResults(reuse)
         e == EngineStart(reuse.eng, DashJobs[j], NewSession(reuse.sessions), o)
     IN  reuse' = [EngineStepped(r, e) EXCEPT
                     !.sessions = IF o = "ok" THEN NewSession(@) ELSE @]
  /\ UNCHANGED <<evars, dash, call>>

ReuseNavigate(o) ==
  /\ reuse.eng.pc = "navigating"
  /\ reuse' = EngineStepped(reuse, EngineNavigate(reuse.eng, o))
  /\ UNCHANGED <<evars, dash, call>>

ReuseLoop(o) ==
  /\ reuse.eng.pc = "executing"
  /\ reuse' = EngineStepped(reuse, EngineLoop(reuse.eng, o))
  /\ UNCHANGED <<evars, dash, call>>

ReuseFinalize(o) ==
  /\ reuse.eng.pc = "finalizing"
  /\ reuse' = EngineStepped(reuse, EngineFinalize(reuse.eng, o))
  /\ UNCHANGED <<evars, dash, call>>

ReuseNext ==
  \/ \E j \in 1..Len(DashJobs), o \in {"ok", "session not created"} : ReuseStart(j, o)
  \/ \E o \in {"ok", "exception"} : ReuseNavigate(o)
  \/ \E o \in BrowserOutcomes : ReuseLoop(o)
  \/ \E o \in {"ok", "exception"} : ReuseFinalize(o)

SpecReuse == Init /\ [][ReuseNext]_vars

\* the calls on the one engine that have returned a value
ReturnedCalls ==
  {k \in 1..Len(reuse.returned) : reuse.returned[k].kind = "return"}

\* the sequence a returned value carries, as the caller reads it now
SequenceOf(k) == reuse.lists[reuse.returned[k].value.results]

\* ------------------------------------------------------------------------
\* C21: a value returned by run_scraping_job carries a step-result sequence
\* exactly when its status is success; a return with error status carries
\* status and message only (the text of the exception being part of the
\* message), whatever was recorded before.  On an engine used for several
\* runs the sequence a run returned holds the navigation entry and steps of
\* that run's own instructions only, no two returned values share a
\* sequence, and no later step changes a value or sequence already returned.
\* ------------------------------------------------------------------------
C21_ResultsOnlyOnSuccessAndPerRun ==
  /\ [](\A k \in ReturnedCalls :
          LET v == reuse.returned[k].value
          IN  /\ v.status \in {"success", "error"}
              /\ HasResults(v) <=> v.status = "success"
              /\ v.status = "error" =>
                   DOMAIN v \subseteq {"status", "message", "cause"}
              /\ HasResults(v) =>
                   LET own == SourceInstructions(SplitLines(
                                DashJobs[reuse.returned[k].job_id].selenium_instructions))
                       rec == TextsOf(SequenceOf(k))
                   IN  /\ Len(SequenceOf(k)) = Len(rec) + 1
                       /\ ~IsStep(SequenceOf(k)[1])
                       /\ Len(rec) <= Len(own) /\ rec = SubSeq(own, 1, Len(rec))
                       /\ \A q \in ReturnedCalls \ {k} :
                            HasResults(reuse.returned[q].value) =>
                              reuse.returned[q].value.results # v.results)
  /\ [][\A k \in ReturnedCalls :
          /\ k \in 1..Len(reuse'.returned)
          /\ reuse'.returned[k] = reuse.returned[k]
          /\ HasResults(reuse.returned[k].value) =>
               reuse'.lists[reuse.returned[k].value.results] = SequenceOf(k)]_vars

\* the first run returned its sequence of two entries; the second run of
\* the same engine failed to navigate and returned an error value without
\* a sequence
C21_Witness ==
  /\ Len(reuse.returned) = 2
  /\ ReturnedCalls = {1, 2}
  /\ reuse.returned[1].value.status = "success"
  /\ Len(SequenceOf(1)) = 2
  /\ reuse.returned[2].value.status = "error"
  /\ ~HasResults(reuse.returned[2].value)
  /\ \E g \in 1..Len(reuse.eng.trace) :
       reuse.eng.trace[g].ev = "get" /\ reuse.eng.trace[g].what = "exception"

====
